---------------------------- MODULE Spec2Model ----------------------------
(***************************************************************************)
(* Model of internal/controller/operandconfig.go of the IBM common-service *)
(* operator: the tree merge primitives, the controller-mode resolver and   *)
(* the two reconcile handlers (updateOperandConfig, handleDelete) acting   *)
(* on the persisted OperandConfig.                                         *)
(*                                                                         *)
(* A configuration tree (Go's interface{} holding map[string]interface{},  *)
(* []interface{} or a scalar) is a tagged record:                          *)
(*   [t |-> "m", kv |-> function from keys to trees]    a map              *)
(*   [t |-> "l", el |-> sequence of trees]              a list             *)
(*   [t |-> "s", n |-> i]     a numeric scalar, a quantity in milli-units  *)
(*                            ("500m" is 500, "1" is 1000, "2" is 2000)    *)
(*   [t |-> "str", s |-> x]   a string scalar                              *)
(*   [t |-> "e"]              the Go value struct{}{}                      *)
(*   [t |-> "nil"]            Go's nil: the result of indexing a map with  *)
(*                            a key it does not hold                       *)
(*   [t |-> "panic"]          the run-time panic of a failed type          *)
(*                            assertion or of an index out of range; it    *)
(*                            replaces the whole result of the operator    *)
(* Maps never hold nil under a key: a key is either absent or non-nil.     *)
(***************************************************************************)
EXTENDS Integers, Sequences, FiniteSets, TLC

VARIABLES
    \* ---- the pure merge primitives applied to drawn inputs (SpecMerge,
    \* ---- SpecPad, SpecExtreme)
    mD, mC, mR, mOw, mDa,   \* default, changed, rules, overwrite, directAssign
    mOut, mOut2,            \* first and second application
    mExtreme,               \* the extreme of an extreme merge: "max" | "min"
    mPc,                    \* the position of the application: "in", "once",
                            \* "twice" (SpecMerge); "lists", "filtered", "deep"
                            \* (SpecPad); "extreme", "shrunk" (SpecExtreme);
                            \* "off"
    \* ---- the controller-mode resolver folded over tenants (SpecModes)
    cmSummary,              \* serviceControllerMappingSummary
    cmFolded,               \* the tenants' mode maps folded so far, in order
    \* ---- the reconcile handlers against the cluster (Spec)
    opcon,                  \* the persisted OperandConfig: resourceVersion, services
    rulesText,              \* rules.ConfigurationRules: "wellformed" | "malformed"
    cs,                     \* the CommonService CR of each tenant
    pc,                     \* each reconcile worker's position
    loc,                    \* each reconcile worker's local variables
    changes,                \* tenant changes made so far (bounded)
    synced,                 \* tenants whose current contribution a successful
                            \* updateOperandConfig for them has applied
    prev,                   \* the last successful updateOperandConfig
    runs,                   \* handler executions started so far (bounded)
    settled,                \* every tenant live at the last removal had been
                            \* reconciled, and no CR was applied since
    everAuto                \* some CR applied so far put opA under an
                            \* independent controller mode

varsM == <<mD, mC, mR, mOw, mDa, mOut, mOut2, mExtreme, mPc>>
varsCM == <<cmSummary, cmFolded>>
varsR == <<opcon, rulesText, cs, pc, loc, changes, synced, prev, runs, settled, everAuto>>
vars == <<varsM, varsCM, varsR>>

-----------------------------------------------------------------------------
(* Trees *)

Nil == [t |-> "nil"]
Panic == [t |-> "panic"]
EmptyStruct == [t |-> "e"]
S(i) == [t |-> "s", n |-> i]
Str(x) == [t |-> "str", s |-> x]
M(f) == [t |-> "m", kv |-> f]
L(q) == [t |-> "l", el |-> q]
EmptyMap == M(<<>>)
EmptyList == L(<<>>)

IsMap(x) == x.t = "m"
IsList(x) == x.t = "l"
IsNum(x) == x.t = "s"

\* Go's m[k] on a map: the zero value nil when the key is absent.  Indexing
\* through a nil interface is a failed type assertion in the callers, which
\* test for nil first; Get of a non-map is nil here.
Get(m, k) == IF IsMap(m) /\ k \in DOMAIN m.kv THEN m.kv[k] ELSE Nil

\* delete(m, k) and m[k] = x on a map value
Del(m, k) == M([j \in DOMAIN m.kv \ {k} |-> m.kv[j]])
Put(m, k, x) == M([j \in DOMAIN m.kv \cup {k} |-> IF j = k THEN x ELSE m.kv[j]])
\* m[k] = x where x may be nil meaning "the key ended up deleted/absent"
PutOrDel(m, k, x) == IF x = Nil THEN Del(m, k) ELSE Put(m, k, x)

\* A map built from per-key results: keys whose result is nil are absent, and
\* a panic anywhere below is the result.
Build(f) ==
    IF \E k \in DOMAIN f : f[k] = Panic THEN Panic
    ELSE M([k \in {j \in DOMAIN f : f[j] # Nil} |-> f[k]])

BuildList(s) == IF \E i \in 1..Len(s) : s[i] = Panic THEN Panic ELSE L(s)

RECURSIVE HasPanic(_)
HasPanic(x) ==
    \/ x = Panic
    \/ IsMap(x) /\ \E k \in DOMAIN x.kv : HasPanic(x.kv[k])
    \/ IsList(x) /\ \E i \in 1..Len(x.el) : HasPanic(x.el[i])

-----------------------------------------------------------------------------
(* Program constants *)

nonDefaultProfileController == {"turbo", "turbonomic", "vpa"}

comparableKeys == {"replicas", "cpu", "memory", "profile", "fipsEnabled",
                   "fips_enabled", "instances", "max_connections",
                   "shared_buffers"}

requiredResetKeys == {"replicas", "cpu", "memory"}

\* rules.ResourceComparison (package rules, outside this file): the numeric
\* comparator, returning <<larger, smaller>>.  On two quantities it is the
\* total order of their values; on any other pair of operands its policy is
\* not defined by this file, and the model lets the first operand stand as
\* the larger and the second as the smaller.
ResourceComparison(a, b) ==
    IF IsNum(a) /\ IsNum(b)
    THEN IF a.n >= b.n THEN <<a, b>> ELSE <<b, a>>
    ELSE <<a, b>>

-----------------------------------------------------------------------------
(* Controller-mode resolver.  A mode map (Go's map[string]string) is a     *)
(* function from the operand names it holds to mode strings.               *)

\* one iteration of the loop of mergeProfileController, for one operand
MergeOneController(summary, operator, profileController) ==
    IF operator \in DOMAIN summary
    THEN IF profileController \in nonDefaultProfileController
            /\ summary[operator] \notin nonDefaultProfileController
         THEN [summary EXCEPT ![operator] = profileController]
         ELSE summary
    ELSE [o \in DOMAIN summary \cup {operator} |->
             IF o = operator THEN profileController ELSE summary[o]]

\* The iterations touch distinct keys of the summary, so their order (Go's
\* map iteration order) does not matter; they are applied key by key.
RECURSIVE MergeControllersOver(_, _, _)
MergeControllersOver(keys, summary, mapping) ==
    IF keys = {} THEN summary
    ELSE LET o == CHOOSE k \in keys : TRUE
         IN MergeControllersOver(keys \ {o},
                                 MergeOneController(summary, o, mapping[o]),
                                 mapping)

\* a bug the claims must detect: the incoming mode always replaces the entry
mergeProfileController_LastWins(summary, mapping) ==
    [o \in DOMAIN summary \cup DOMAIN mapping |->
        IF o \in DOMAIN mapping THEN mapping[o] ELSE summary[o]]

mergeProfileController(summary, mapping) ==
    MergeControllersOver(DOMAIN mapping, summary, mapping)

-----------------------------------------------------------------------------
(* Tree merge primitives *)

\* filterChangedMapWithRules(key, changedMap, rules, finalMap): the value
\* finalMap[key] ends with (nil: the key was deleted).
RECURSIVE filterChangedMapWithRules(_, _)
\* a bug the claims must detect: a scalar the rules do not name is kept
filterChangedMapWithRules_KeepScalars(c, r) ==
    IF IsMap(c) THEN
        IF r = Nil THEN Nil
        ELSE IF IsMap(r)
             THEN LET sub(k) == filterChangedMapWithRules(c.kv[k], Get(r, k))
                  IN Build([k \in DOMAIN c.kv |-> sub(k)])
             ELSE Nil
    ELSE c

filterChangedMapWithRules(c, r) ==
    IF IsMap(c) THEN
        IF r = Nil THEN Nil
        ELSE IF IsMap(r)
             THEN LET sub(k) == filterChangedMapWithRules(c.kv[k], Get(r, k))
                  IN Build([k \in DOMAIN c.kv |-> sub(k)])
             ELSE Nil
    ELSE IF r = Nil /\ c # Nil THEN Nil ELSE c

\* mergeChangedMap(key, defaultMap, changedMap, finalMap, directAssign): the
\* value finalMap[key] ends with; finalMap[key] is changedMap on entry.
RECURSIVE mergeChangedMap(_, _, _, _)
\* a bug the claims must detect: the allow-list is not consulted, every
\* scalar goes through the comparator
mergeChangedMap_NoAllowList(key, d, c, da) ==
    IF d = c THEN c
    ELSE IF IsMap(d) THEN
        IF c = Nil THEN d
        ELSE IF IsMap(c)
             THEN LET sub(k) == IF k \in DOMAIN d.kv
                                THEN mergeChangedMap(k, d.kv[k], Get(c, k), da)
                                ELSE c.kv[k]
                  IN Build([k \in DOMAIN d.kv \cup DOMAIN c.kv |-> sub(k)])
             ELSE c
    ELSE IF IsList(d) THEN d
    ELSE
        IF c = Nil THEN d
        ELSE IF da THEN c ELSE ResourceComparison(d, c)[1]

mergeChangedMap(key, d, c, da) ==
    IF d = c THEN c
    ELSE IF IsMap(d) THEN
        IF c = Nil THEN d
        ELSE IF IsMap(c)
             THEN LET sub(k) == IF k \in DOMAIN d.kv
                                THEN mergeChangedMap(k, d.kv[k], Get(c, k), da)
                                ELSE c.kv[k]
                  IN Build([k \in DOMAIN d.kv \cup DOMAIN c.kv |-> sub(k)])
             ELSE c
    ELSE IF IsList(d) THEN
        IF c = Nil THEN d
        ELSE IF IsList(c)
             THEN LET n == Len(c.el)
                      \* the element at an index both lists hold
                      elem(i) ==
                          IF ~IsMap(d.el[i]) \/ DOMAIN d.el[i].kv = {} THEN c.el[i]
                          ELSE IF ~IsMap(c.el[i]) THEN Panic
                          ELSE LET sub(k) ==
                                     IF k \in DOMAIN d.el[i].kv
                                     THEN mergeChangedMap(k, d.el[i].kv[k],
                                                          Get(c.el[i], k), da)
                                     ELSE c.el[i].kv[k]
                               IN Build([k \in DOMAIN d.el[i].kv \cup DOMAIN c.el[i].kv |-> sub(k)])
                      head == [i \in 1..n |->
                                  IF i <= Len(d.el) THEN elem(i) ELSE c.el[i]]
                      \* len(changedMapRef) <= i: only map elements are appended
                      tail == SelectSeq(SubSeq(d.el, n + 1, Len(d.el)), IsMap)
                  IN BuildList(head \o tail)
             ELSE c
    ELSE
        IF c = Nil THEN d
        ELSE IF key \in comparableKeys
             THEN IF da THEN c ELSE ResourceComparison(d, c)[1]
             ELSE c

\* The loop "for key := range defaultMap" of the three map-level merges.
MergeOverDefaultKeys(D, C, da) ==
    LET sub(k) == IF k \in DOMAIN D.kv
                  THEN mergeChangedMap(k, D.kv[k], Get(C, k), da)
                  ELSE C.kv[k]
    IN Build([k \in DOMAIN D.kv \cup DOMAIN C.kv |-> sub(k)])

mergeCRsIntoOperandConfigWithDefaultRules(D, C, da) ==
    MergeOverDefaultKeys(D, C, da)

mergeCRsIntoOperandConfig(D, C, R, overwrite, da) ==
    LET filtered == IF overwrite THEN C
                    ELSE LET sub(k) == filterChangedMapWithRules(C.kv[k], Get(R, k))
                         IN Build([k \in DOMAIN C.kv |-> sub(k)])
    IN MergeOverDefaultKeys(D, filtered, da)

\* deepMergeTwoMaps(key, defaultMap, changedMap, finalMap): the value
\* finalMap[key] ends with; finalMap[key] is changedMap on entry.
RECURSIVE deepMergeTwoMaps(_, _, _)
deepMergeTwoMaps(key, d, c) ==
    IF IsMap(d) THEN
        IF c = Nil THEN d
        ELSE IF IsMap(c)
             THEN LET sub(k) == IF k \in DOMAIN d.kv
                                THEN deepMergeTwoMaps(k, d.kv[k], Get(c, k))
                                ELSE c.kv[k]
                  IN Build([k \in DOMAIN d.kv \cup DOMAIN c.kv |-> sub(k)])
             ELSE c
    ELSE IF IsList(d) THEN
        IF c = Nil THEN d
        ELSE IF IsList(c)
             THEN LET n == Len(c.el)
                      elem(i) ==
                          IF ~IsMap(d.el[i]) \/ DOMAIN d.el[i].kv = {} THEN c.el[i]
                          ELSE IF ~IsMap(c.el[i]) THEN Panic
                          ELSE LET sub(k) ==
                                     IF k \in DOMAIN d.el[i].kv
                                     THEN deepMergeTwoMaps(k, d.el[i].kv[k],
                                                           Get(c.el[i], k))
                                     ELSE c.el[i].kv[k]
                               IN Build([k \in DOMAIN d.el[i].kv \cup DOMAIN c.el[i].kv |-> sub(k)])
                      head == [i \in 1..n |->
                                  IF i <= Len(d.el) THEN elem(i) ELSE c.el[i]]
                      \* len(changedMapRef) <= i: only map elements are appended
                      tail == SelectSeq(SubSeq(d.el, n + 1, Len(d.el)), IsMap)
                  IN BuildList(head \o tail)
             ELSE c
    ELSE IF c = Nil THEN d ELSE c

\* mergeSizeProfile: the unconditional deep merge of two maps
mergeSizeProfile(D, C) ==
    LET sub(k) == IF k \in DOMAIN D.kv
                  THEN IF D.kv[k] = Get(C, k) THEN C.kv[k]
                       ELSE deepMergeTwoMaps(k, D.kv[k], Get(C, k))
                  ELSE C.kv[k]
    IN Build([k \in DOMAIN D.kv \cup DOMAIN C.kv |-> sub(k)])

\* resetChangedMap(key, changedMap, rulesForCR, finalMap): the value
\* finalMap[key] ends with (nil: the key was deleted).  rulesForCR is a map
\* or nil.
RECURSIVE resetChangedMap(_, _, _)
resetChangedMap(key, c, rulesForCR) ==
    LET rules == Get(rulesForCR, key)
    IN IF rules = Nil THEN c
       ELSE IF IsMap(c)
            THEN IF IsMap(rules)
                 THEN Build([k \in DOMAIN c.kv |->
                                resetChangedMap(k, c.kv[k], rules)])
                 ELSE c
            ELSE IF key \in requiredResetKeys THEN Nil ELSE c

\* rules.(map)["spec"].(map)[cr], guarded by the nil tests of the callers
RuleForCR(rules, cr) == Get(Get(rules, "spec"), cr)

resetResourceInTemplate(changedMap, cr, rules) ==
    LET rulesForCR == RuleForCR(rules, cr)
    IN IF rulesForCR # Nil /\ ~IsMap(rulesForCR) THEN Panic
       ELSE Build([k \in DOMAIN changedMap.kv |->
                      resetChangedMap(k, changedMap.kv[k], rulesForCR)])

\* mergeChangedMapWithExtremeSize(key, defaultMap, changedMap, finalMap,
\* extreme): the value finalMap[key] ends with; it is defaultMap on entry.
RECURSIVE mergeChangedMapWithExtremeSize(_, _, _, _)
mergeChangedMapWithExtremeSize(key, d, c, extreme) ==
    IF d = c THEN d
    ELSE IF IsMap(c) THEN
        IF IsMap(d)
        THEN LET sub(k) ==
                   IF k \in DOMAIN c.kv
                   THEN mergeChangedMapWithExtremeSize(k, Get(d, k), c.kv[k],
                                                       extreme)
                   ELSE d.kv[k]
             IN Build([k \in DOMAIN d.kv \cup DOMAIN c.kv |-> sub(k)])
        ELSE d
    ELSE IF IsList(c) THEN
        IF IsList(d)
        THEN LET \* the loops over i and over the keys of changedMapRef[i]
                 bad(i) == \/ ~IsMap(c.el[i])
                           \/ DOMAIN c.el[i].kv # {} /\ i > Len(d.el)
                 elem(i) ==
                     IF i > Len(c.el) \/ ~IsMap(d.el[i]) THEN d.el[i]
                     ELSE LET sub(k) ==
                                IF k \in DOMAIN c.el[i].kv
                                THEN mergeChangedMapWithExtremeSize(
                                         k, Get(d.el[i], k), c.el[i].kv[k],
                                         extreme)
                                ELSE d.el[i].kv[k]
                          IN Build([k \in DOMAIN d.el[i].kv
                                              \cup DOMAIN c.el[i].kv |-> sub(k)])
             IN IF \E i \in 1..Len(c.el) : bad(i) THEN Panic
                ELSE BuildList([i \in 1..Len(d.el) |-> elem(i)])
        ELSE d
    ELSE
        IF c # Nil /\ d # Nil
        THEN IF extreme = "max" THEN ResourceComparison(d, c)[1]
             ELSE IF extreme = "min" THEN ResourceComparison(d, c)[2]
             ELSE d
        ELSE IF c # Nil /\ d = Nil THEN c
        ELSE d

\* a bug the claims must detect: shrinkSize ignores the summary
shrinkSize_Ignore(D, C, extreme) == D

shrinkSize(D, C, extreme) ==
    Build([k \in DOMAIN D.kv |->
              mergeChangedMapWithExtremeSize(k, D.kv[k], Get(C, k), extreme)])

\* the value a tree holds at a path of map keys (nil: nothing there)
RECURSIVE At(_, _)
At(x, p) == IF p = <<>> THEN x ELSE At(Get(x, Head(p)), Tail(p))

\* the tree with the value at a path of existing maps set
RECURSIVE PutAt(_, _, _)
PutAt(x, p, v) ==
    IF p = <<>> THEN v
    ELSE Put(x, Head(p), PutAt(Get(x, Head(p)), Tail(p), v))

-----------------------------------------------------------------------------
(* Resource identity index *)

\* x.(string) of a field that may be nil: "" when nil
IsStr(x) == x.t = "str"
StrOr(x) == IF IsStr(x) THEN x.s ELSE ""

\* item.(map)["name"].(string) == name
NameIs(item, name) == Get(item, "name") = Str(name)
\* the assertions item.(map)["name"].(string) fail
BadName(item) == ~IsMap(item) \/ ~IsStr(Get(item, "name"))

\* getItemByName as the index of the item in the slice: 0 when there is
\* none, -1 when an item before it makes the type assertions panic
RECURSIVE IndexByNameFrom(_, _, _)
IndexByNameFrom(slice, name, i) ==
    IF i > Len(slice) THEN 0
    ELSE IF BadName(slice[i]) THEN -1
    ELSE IF NameIs(slice[i], name) THEN i
    ELSE IndexByNameFrom(slice, name, i + 1)

IndexByName(slice, name) == IndexByNameFrom(slice, name, 1)

getItemByName(slice, name) ==
    LET i == IndexByName(slice, name)
    IN IF i = -1 THEN Panic ELSE IF i = 0 THEN Nil ELSE slice[i]

\* setSpecByName / setResByName: replace the field in place or append a stub
SetFieldByName(slice, name, field, x) ==
    LET i == IndexByName(slice, name)
    IN IF i = -1 THEN Panic
       ELSE IF i = 0
            THEN L(Append(slice, M((("name" :> Str(name)) @@ (field :> x)))))
            ELSE L([slice EXCEPT ![i] = Put(slice[i], field, x)])

setSpecByName(slice, name, spec) == SetFieldByName(slice, name, "spec", spec)

setResByName(slice, name, resources) ==
    SetFieldByName(slice, name, "resources", resources)

\* getItemByGVKNameNamespace: the first resource of the identity, nil when
\* there is none, a panic when a field compared on the way is no string
RECURSIVE GVKFrom(_, _, _, _, _, _, _)
GVKFrom(rs, opconNs, apiVersion, kind, name, namespace, i) ==
    IF i > Len(rs) THEN Nil
    ELSE LET r == rs[i]
             next == GVKFrom(rs, opconNs, apiVersion, kind, name, namespace, i + 1)
         IN IF ~IsMap(r) \/ ~IsStr(Get(r, "apiVersion")) THEN Panic
            ELSE IF Get(r, "apiVersion").s # apiVersion THEN next
            ELSE IF ~IsStr(Get(r, "kind")) THEN Panic
            ELSE IF Get(r, "kind").s # kind THEN next
            ELSE IF ~IsStr(Get(r, "name")) THEN Panic
            ELSE IF Get(r, "name").s # name THEN next
            ELSE IF "namespace" \in DOMAIN r.kv
                 THEN IF ~IsStr(r.kv["namespace"]) THEN Panic
                      ELSE IF r.kv["namespace"].s = namespace THEN r ELSE next
                 ELSE IF opconNs = namespace THEN r ELSE next

getItemByGVKNameNamespace(rs, opconNs, apiVersion, kind, name, namespace) ==
    GVKFrom(rs, opconNs, apiVersion, kind, name, namespace, 1)

isOpResourceExists(r) ==
    /\ Get(r, "data") # Nil
    /\ Get(Get(r, "data"), "spec") # Nil
    /\ Get(Get(Get(r, "data"), "spec"), "resources") # Nil

\* a type assertion on the way of isOpResourceExists fails
OpResourceBad(r) ==
    \/ Get(r, "data") # Nil /\ ~IsMap(Get(r, "data"))
    \/ /\ Get(Get(r, "data"), "spec") # Nil
       /\ ~IsMap(Get(Get(r, "data"), "spec"))

\* r["data"]["spec"]["resources"]["limits"]["cpu"] = struct{}{}
SetLimitsCpu(r) ==
    IF ~IsMap(At(r, <<"data", "spec", "resources", "limits">>)) THEN Panic
    ELSE PutAt(r, <<"data", "spec", "resources", "limits", "cpu">>, EmptyStruct)

\* the block "if nonDefault { if isOpResourceExists(r) { ...cpu = struct{}{} } }"
MarkAutoscaled(r, serviceController) ==
    IF serviceController \notin nonDefaultProfileController THEN r
    ELSE IF OpResourceBad(r) THEN Panic
    ELSE IF isOpResourceExists(r) THEN SetLimitsCpu(r)
    ELSE r

\* the identity strings a handler reads off a resource entry
\* (nil: "", no string: the assertion panics)
IdentityBad(r) ==
    \/ ~IsMap(r)
    \/ \E f \in {"apiVersion", "kind", "name", "namespace"} :
          Get(r, f) # Nil /\ ~IsStr(Get(r, f))
IdentityIncomplete(r) ==
    \E f \in {"apiVersion", "kind", "name"} : StrOr(Get(r, f)) = ""
NamespaceOf(r, opconNs) ==
    IF StrOr(Get(r, "namespace")) = "" THEN opconNs ELSE Get(r, "namespace").s

\* serviceController := mapping["profileController"], overridden by the
\* operand's own entry
ServiceController(mapping, name) ==
    IF name \in DOMAIN mapping THEN mapping[name]
    ELSE IF "profileController" \in DOMAIN mapping
         THEN mapping["profileController"]
         ELSE ""

-----------------------------------------------------------------------------
(* Aggregation orchestrator: the computations of updateOperandConfig,      *)
(* getExtremeizes and mergeCSCRs between the cluster calls.  A list of     *)
(* services, of rules or of tenant configs is a list tree L(<<...>>).      *)

\* a bug the claims must detect: the spec is never cleaned up
SpecForMode_NoReset(spec0, cr, rules, serviceController) == spec0

\* "if serviceController is an autoscaler { resetResourceInTemplate(...) }":
\* the spec of one CR kind as the handlers go on with it
SpecForMode(spec0, cr, rules, serviceController) ==
    IF serviceController \in nonDefaultProfileController
    THEN IF IsMap(spec0) THEN resetResourceInTemplate(spec0, cr, rules)
         ELSE Panic
    ELSE spec0

\* item[field] = x, unless a panic cut the computation of item or x short
WithField(item, field, x) ==
    IF item = Panic \/ x = Panic THEN Panic ELSE Put(item, field, x)

\* list[i] = x, likewise
ReplaceAt(list, i, x) ==
    IF x = Panic THEN Panic ELSE L([list.el EXCEPT ![i] = x])

\* updateOperandConfig, lines 414-428: one CR kind of the operand's spec
DirectSpecCR(spec, nspec, newConfigForCR, ruleForCR) ==
    IF spec = Panic \/ ~IsMap(nspec) THEN Panic
    ELSE IF newConfigForCR = Nil THEN spec
    ELSE IF ~IsMap(newConfigForCR) \/ ~IsMap(spec) THEN Panic
    ELSE IF ruleForCR # Nil
         THEN IF ~IsMap(ruleForCR) THEN Panic
              ELSE mergeCRsIntoOperandConfig(spec, newConfigForCR, ruleForCR,
                                             TRUE, TRUE)
         ELSE mergeCRsIntoOperandConfigWithDefaultRules(spec, newConfigForCR,
                                                        FALSE)

\* updateOperandConfig, lines 408-430: the direct apply on one operand's spec
DirectSpec(opService, cfg, serviceController, rules) ==
    LET ospec == Get(opService, "spec")
        nspec == Get(cfg, "spec")
    IN IF ospec = Nil \/ nspec = Nil THEN opService
       ELSE IF ~IsMap(ospec) THEN Panic
       ELSE WithField(opService, "spec",
                Build([cr \in DOMAIN ospec.kv |->
                          DirectSpecCR(SpecForMode(ospec.kv[cr], cr, rules,
                                                   serviceController),
                                       nspec, Get(nspec, cr),
                                       RuleForCR(rules, cr))]))

\* the entry of a resources list with the identity of opResource
FindResource(resources, opResource, opconNs) ==
    IF ~IsList(resources) THEN Panic
    ELSE getItemByGVKNameNamespace(
             resources.el, opconNs,
             StrOr(Get(opResource, "apiVersion")),
             StrOr(Get(opResource, "kind")),
             StrOr(Get(opResource, "name")),
             NamespaceOf(opResource, opconNs))

\* the merge each pass applies to a resource and the entry found for it:
\* lines 468 (direct apply), 169 (mergeCSCRs), 625 (getExtremeizes)
MergeResourceMarked(opResource, marked, pass) ==
    IF marked = Panic THEN Panic
    ELSE IF pass = "direct"
         THEN mergeCRsIntoOperandConfigWithDefaultRules(opResource, marked, TRUE)
    ELSE IF pass = "summary"
         THEN mergeCRsIntoOperandConfigWithDefaultRules(opResource, marked, FALSE)
    ELSE shrinkSize(opResource, marked, pass)

MergeResourceFound(opResource, found, serviceController, pass) ==
    IF found = Panic THEN Panic
    ELSE IF found = Nil THEN opResource
    ELSE MergeResourceMarked(opResource,
                             MarkAutoscaled(found, serviceController), pass)

\* lines 434-470, 140-172, 591-628: one resource of the list a pass walks,
\* merged with the entry of the same identity in the other list
MergeResource(opResource, others, opconNs, serviceController, pass) ==
    IF IdentityBad(opResource) THEN Panic
    ELSE IF IdentityIncomplete(opResource) THEN opResource
    ELSE IF others = Nil THEN opResource
    ELSE MergeResourceFound(opResource,
                            FindResource(others, opResource, opconNs),
                            serviceController, pass)

\* updateOperandConfig, lines 432-476: the direct apply on one operand's
\* resources
DirectResources(opService, cfg, serviceController, opconNs) ==
    LET opResources == Get(opService, "resources")
    IN IF opService = Panic THEN Panic
       ELSE IF opResources = Nil \/ ~IsList(opResources) THEN opService
       ELSE WithField(opService, "resources",
                BuildList([i \in 1..Len(opResources.el) |->
                              MergeResource(opResources.el[i],
                                            Get(cfg, "resources"), opconNs,
                                            serviceController, "direct")]))

DirectOperand(opService, cfg, serviceController, rules, opconNs) ==
    IF rules = Panic THEN Panic
    ELSE DirectResources(DirectSpec(opService, cfg, serviceController, rules),
                         cfg, serviceController, opconNs)

\* updateOperandConfig, lines 393-478: one iteration of the loop over
\* newConfigs, on the services list
DirectApplyOne(services, cfg, mapping, ruleSlice, opconNs) ==
    IF cfg = Nil THEN services
    ELSE IF BadName(cfg) THEN Panic
    ELSE LET name == Get(cfg, "name").s
             i == IndexByName(services.el, name)
         IN IF i = -1 THEN Panic
            ELSE IF i = 0 THEN services
            ELSE ReplaceAt(services, i,
                     DirectOperand(services.el[i], cfg,
                                   ServiceController(mapping, name),
                                   getItemByName(ruleSlice.el, name), opconNs))

RECURSIVE DirectApplyFrom(_, _, _, _, _, _)
DirectApplyFrom(services, newConfigs, mapping, ruleSlice, opconNs, j) ==
    IF services = Panic \/ j > Len(newConfigs.el) THEN services
    ELSE DirectApplyFrom(
             DirectApplyOne(services, newConfigs.el[j], mapping, ruleSlice, opconNs),
             newConfigs, mapping, ruleSlice, opconNs, j + 1)

DirectApply(services, newConfigs, mapping, ruleSlice, opconNs) ==
    DirectApplyFrom(services, newConfigs, mapping, ruleSlice, opconNs, 1)

\* a bug the claims must detect: the aggregation merges with overwrite
SummarySpecCR_Overwrite(spec, sizeForCR, ruleForCR) ==
    IF spec = Panic THEN Panic
    ELSE IF ruleForCR = Nil THEN sizeForCR
    ELSE IF ~IsMap(ruleForCR) \/ ~IsMap(sizeForCR) \/ ~IsMap(spec) THEN Panic
    ELSE mergeCRsIntoOperandConfig(sizeForCR, spec, ruleForCR, TRUE, FALSE)

\* mergeCSCRs, lines 121-134: one CR kind of the tenant operator's spec
SummarySpecCR(spec, sizeForCR, ruleForCR) ==
    IF spec = Panic THEN Panic
    ELSE IF ruleForCR = Nil THEN sizeForCR
    ELSE IF ~IsMap(ruleForCR) \/ ~IsMap(sizeForCR) \/ ~IsMap(spec) THEN Panic
    ELSE mergeCRsIntoOperandConfig(sizeForCR, spec, ruleForCR, FALSE, FALSE)

\* summaryCR.spec[cr], an empty map when there is none (line 126)
SizeForCR(sspec, cr) == IF Get(sspec, cr) = Nil THEN EmptyMap ELSE sspec.kv[cr]

\* mergeCSCRs, lines 119-135: one tenant operator's spec folded into the
\* summary entry's spec
SummarySpec(summaryCR, operator, serviceController, rules) ==
    LET sspec == Get(summaryCR, "spec")
        ospec == Get(operator, "spec")
    IN IF ~IsMap(ospec) \/ ~IsMap(sspec) THEN Panic
       ELSE Build([cr \in DOMAIN sspec.kv \cup DOMAIN ospec.kv |->
                      IF cr \notin DOMAIN ospec.kv THEN sspec.kv[cr]
                      ELSE SummarySpecCR(
                               SpecForMode(ospec.kv[cr], cr, rules,
                                           serviceController),
                               SizeForCR(sspec, cr), RuleForCR(rules, cr))])

\* mergeCSCRs, lines 138-177: one tenant operator's resources, each merged
\* with the summary entry's resource of the same identity
SummaryResources(summaryCR, operator, serviceController, opconNs) ==
    LET ores == Get(operator, "resources")
    IN IF ~IsList(ores) THEN Panic
       ELSE BuildList([i \in 1..Len(ores.el) |->
                          MergeResource(ores.el[i], Get(summaryCR, "resources"),
                                        opconNs, serviceController, "summary")])

\* mergeCSCRs, lines 104-114: a stub, or the summary's own entry completed
SummaryEntry(csSummary, i, name) ==
    IF i = 0
    THEN M([name |-> Str(name), spec |-> EmptyMap, resources |-> EmptyList])
    ELSE IF Get(csSummary.el[i], "spec") = Nil
         THEN Put(csSummary.el[i], "spec", EmptyMap)
         ELSE IF Get(csSummary.el[i], "resources") = Nil
              THEN Put(csSummary.el[i], "resources", EmptyList)
              ELSE csSummary.el[i]

\* the summary once its entry is completed in place (the stub is no part
\* of it yet)
SummaryWithEntry(csSummary, i, name) ==
    IF i = 0 THEN csSummary
    ELSE L([csSummary.el EXCEPT ![i] = SummaryEntry(csSummary, i, name)])

\* mergeCSCRs, lines 116-136
SetSpecOf(summary, name, operator, newSpec) ==
    IF Get(operator, "spec") = Nil THEN summary
    ELSE IF newSpec = Panic THEN Panic
    ELSE setSpecByName(summary.el, name, newSpec)

\* mergeCSCRs, lines 138-178
SetResourcesOf(summary, name, operator, newResources) ==
    IF summary = Panic \/ Get(operator, "resources") = Nil THEN summary
    ELSE IF newResources = Panic THEN Panic
    ELSE setResByName(summary.el, name, newResources)

MergeOperatorAt(csSummary, operator, name, i, rules, serviceController, opconNs) ==
    IF i = -1 \/ rules = Panic THEN Panic
    ELSE SetResourcesOf(
             SetSpecOf(SummaryWithEntry(csSummary, i, name), name, operator,
                       SummarySpec(SummaryEntry(csSummary, i, name), operator,
                                   serviceController, rules)),
             name, operator,
             \* matched against the entry as it was found: its resources
             SummaryResources(SummaryEntry(csSummary, i, name), operator,
                              serviceController, opconNs))

\* mergeCSCRs, lines 101-178: one operator of one tenant folded into the
\* summary
MergeOneOperator(csSummary, operator, ruleSlice, modeSummary, opconNs) ==
    IF BadName(operator) THEN Panic
    ELSE MergeOperatorAt(csSummary, operator, Get(operator, "name").s,
                         IndexByName(csSummary.el, Get(operator, "name").s),
                         getItemByName(ruleSlice.el, Get(operator, "name").s),
                         ServiceController(modeSummary, Get(operator, "name").s),
                         opconNs)

RECURSIVE MergeOperatorsFrom(_, _, _, _, _, _)
MergeOperatorsFrom(csSummary, csCR, ruleSlice, modeSummary, opconNs, j) ==
    IF csSummary = Panic \/ j > Len(csCR.el) THEN csSummary
    ELSE MergeOperatorsFrom(
             MergeOneOperator(csSummary, csCR.el[j], ruleSlice, modeSummary, opconNs),
             csCR, ruleSlice, modeSummary, opconNs, j + 1)

mergeCSCRs(csSummary, csCR, ruleSlice, modeSummary, opconNs) ==
    MergeOperatorsFrom(csSummary, csCR, ruleSlice, modeSummary, opconNs, 1)

\* getExtremeizes, lines 578-586: one CR kind of the operand's spec
ExtremeSpecCR(spec, serviceForCR, extreme) ==
    IF spec = Panic THEN Panic
    ELSE IF serviceForCR = Nil THEN spec
    ELSE IF ~IsMap(serviceForCR) \/ ~IsMap(spec) THEN Panic
    ELSE shrinkSize(spec, serviceForCR, extreme)

\* getExtremeizes, lines 575-587: the extreme merge of one operand's spec
ExtremeSpec(opService, crSummary, serviceController, rules, extreme) ==
    LET ospec == Get(opService, "spec")
    IN IF ospec = Nil THEN opService
       ELSE IF ~IsMap(ospec) THEN Panic
       ELSE WithField(opService, "spec",
                Build([cr \in DOMAIN ospec.kv |->
                          ExtremeSpecCR(SpecForMode(ospec.kv[cr], cr, rules,
                                                    serviceController),
                                        Get(Get(crSummary, "spec"), cr),
                                        extreme)]))

\* getExtremeizes, lines 589-633: the extreme merge of one operand's resources
ExtremeResources(opService, crSummary, serviceController, opconNs, extreme) ==
    LET opResources == Get(opService, "resources")
    IN IF opService = Panic THEN Panic
       ELSE IF opResources = Nil \/ ~IsList(opResources) THEN opService
       ELSE WithField(opService, "resources",
                BuildList([i \in 1..Len(opResources.el) |->
                              MergeResource(opResources.el[i],
                                            Get(crSummary, "resources"),
                                            opconNs, serviceController,
                                            extreme)]))

ExtremeOperand(opService, crSummary, rules, serviceController, opconNs, extreme) ==
    IF crSummary = Panic \/ rules = Panic THEN Panic
    ELSE ExtremeResources(
             ExtremeSpec(opService, crSummary, serviceController, rules, extreme),
             crSummary, serviceController, opconNs, extreme)

\* getExtremeizes, lines 566-634: one operand of the canonical config
ExtremeOne(opService, configSummary, ruleSlice, modeSummary, opconNs, extreme) ==
    IF BadName(opService) THEN Panic
    ELSE ExtremeOperand(opService,
                        getItemByName(configSummary.el, Get(opService, "name").s),
                        getItemByName(ruleSlice.el, Get(opService, "name").s),
                        ServiceController(modeSummary, Get(opService, "name").s),
                        opconNs, extreme)

ExtremeAll(services, configSummary, ruleSlice, modeSummary, opconNs, extreme) ==
    IF services = Panic \/ configSummary = Panic THEN Panic
    ELSE BuildList([i \in 1..Len(services.el) |->
                       ExtremeOne(services.el[i], configSummary, ruleSlice,
                                  modeSummary, opconNs, extreme)])

-----------------------------------------------------------------------------
(* The reconcile workers' state when they are not part of a specification *)

Tenants == {"t1", "t2"}
Procs == {"p1", "p2"}

NoLoc ==
    [kind |-> "none", tenant |-> "none", k |-> 0, rv |-> 0, services |-> Nil,
     out |-> Nil, isEqual |-> FALSE, seen |-> <<>>,
     steps |-> {}, updCalls |-> 0, wrote |-> FALSE, err |-> "",
     overtaken |-> FALSE, again |-> FALSE, allSynced |-> FALSE]

NoPrev == [rv |-> 0, k |-> 0, seen |-> <<>>]

NoTenant == [st |-> "absent", k |-> 0]

ReconcileIdle ==
    /\ opcon = [rv |-> 0, services |-> Nil]
    /\ rulesText = "off"
    /\ cs = [t \in Tenants |-> NoTenant]
    /\ pc = [p \in Procs |-> "off"]
    /\ loc = [p \in Procs |-> NoLoc]
    /\ changes = 0
    /\ synced = {}
    /\ prev = NoPrev
    /\ runs = 0
    /\ settled = FALSE
    /\ everAuto = FALSE

-----------------------------------------------------------------------------
(* Inputs of the pure merge primitives *)

MaxQty == 2
MaxLen == 2

Qty == {S(q) : q \in 1..MaxQty}

MapsOver(keys, vals) ==
    {M(f) : f \in UNION {[ks -> vals] : ks \in SUBSET keys}}

LeafMaps == MapsOver({"cpu", "foo"}, Qty)

ListElems == {M([cpu |-> S(1)]), M([cpu |-> S(MaxQty)]), S(1)}

RECURSIVE SeqsUpTo(_, _)
SeqsUpTo(n, E) ==
    IF n = 0 THEN {<<>>}
    ELSE LET shorter == SeqsUpTo(n - 1, E)
         IN shorter \cup {Append(s, e) : s \in {p \in shorter : Len(p) = n - 1}, e \in E}

FlatTrees == LeafMaps
NestedTrees == {M([sub |-> m]) : m \in LeafMaps} \cup {M([sub |-> S(1)])}
ListTrees == {M([lst |-> L(s)]) : s \in SeqsUpTo(MaxLen, ListElems)}

Marker == Str("LARGEST_VALUE")

\* the scenario of the rule-filtering example
ScenDefault == M([replicas |-> S(1), cpu |-> S(200), foo |-> Str("bar")])
ScenChanged == M([replicas |-> S(3), cpu |-> S(100), foo |-> Str("baz")])
ScenRules == M([replicas |-> EmptyMap, cpu |-> EmptyMap])

TreePairs ==
    (FlatTrees \X FlatTrees) \cup (NestedTrees \X NestedTrees)
        \cup (ListTrees \X ListTrees) \cup {<<ScenDefault, ScenChanged>>}

RuleTrees ==
    { EmptyMap,
      M([cpu |-> Marker]),
      M([cpu |-> Marker, foo |-> Marker, lst |-> Marker, sub |-> Marker]),
      M([sub |-> M([cpu |-> Marker]), lst |-> Marker]),
      ScenRules }

InitMerge ==
    /\ \E p \in TreePairs : mD = p[1] /\ mC = p[2]
    /\ mR \in RuleTrees
    /\ mOw \in BOOLEAN
    /\ mDa \in BOOLEAN
    /\ mExtreme = "none"
    /\ mOut = Nil
    /\ mOut2 = Nil
    /\ mPc = "in"
    /\ cmSummary = <<>>
    /\ cmFolded = <<>>
    /\ ReconcileIdle

\* RuleFilteredMerge applied to the drawn inputs
ApplyMerge ==
    /\ mPc = "in"
    /\ mOut' = mergeCRsIntoOperandConfig(mD, mC, mR, mOw, mDa)
    /\ mPc' = "once"
    /\ UNCHANGED <<mD, mC, mR, mOw, mDa, mExtreme, mOut2>>

\* ... and applied again to its own result, against the same default
ApplyMergeAgain ==
    /\ mPc = "once"
    /\ mOut # Panic
    /\ mOut2' = mergeCRsIntoOperandConfig(mD, mOut, mR, mOw, mDa)
    /\ mPc' = "twice"
    /\ UNCHANGED <<mD, mC, mR, mOw, mDa, mExtreme, mOut>>

NextMerge == (ApplyMerge \/ ApplyMergeAgain) /\ UNCHANGED <<varsCM, varsR>>

SpecMerge == InitMerge /\ [][NextMerge]_vars

-----------------------------------------------------------------------------
(* Properties of RuleFilteredMerge (mergeCRsIntoOperandConfig) *)

PathKeys == {"replicas", "cpu", "foo", "sub", "lst"}
Paths == {<<k>> : k \in PathKeys} \cup {<<j, k>> : j \in PathKeys, k \in PathKeys}

\* every proper prefix of the path is a map (or absent) in the tree
MapsAlong(x, p) ==
    \A i \in 1..(Len(p) - 1) :
        LET y == At(x, SubSeq(p, 1, i)) IN y = Nil \/ IsMap(y)

MergedOnce == mPc # "in" /\ mOut # Panic

\* C6 (as claimed): merge idempotence.  Merging the result of a rule-filtered
\* merge once more against the same default, rules and flags gives the same
\* tree again.
C6_MergeIdempotent == mPc = "twice" /\ mOut2 # Panic => mOut2 = mOut

\* C7 (as claimed): with overwrite = false a field whose path is absent from
\* the rule tree is absent from the merge output, whatever changed and
\* default hold there.
C7_AbsentFromOutput ==
    MergedOnce /\ ~mOw =>
        \A p \in Paths : At(mR, p) = Nil => At(mOut, p) = Nil

\* C7 (amended): with overwrite = false a field whose path is absent from the
\* rule tree never carries changed's value in the output: the output holds
\* nothing there or default's value, and holds default's value whenever
\* default and changed are maps along the path.  The example yields
\* {replicas: 3, cpu: "200m", foo: "bar"}.
C7_RevertedToDefault ==
    MergedOnce /\ ~mOw =>
        /\ \A p \in Paths : At(mR, p) = Nil =>
              /\ At(mOut, p) \in {At(mD, p), Nil}
              /\ MapsAlong(mD, p) /\ MapsAlong(mC, p) => At(mOut, p) = At(mD, p)
        /\ mD = ScenDefault /\ mC = ScenChanged /\ mR = ScenRules /\ ~mDa =>
              mOut = M([replicas |-> S(3), cpu |-> S(200), foo |-> Str("bar")])

\* C7 witness: the example has been merged, its foo pruned from changed and
\* taken from default; and a nested field absent from the rules was reverted.
C7_Witness ==
    /\ MergedOnce /\ ~mOw /\ ~mDa
    /\ mD = ScenDefault /\ mC = ScenChanged /\ mR = ScenRules
    /\ At(mC, <<"foo">>) # At(mOut, <<"foo">>)

\* does changed's value at a (one- or two-key) path survive the pruning?
SurvivesPruning(p) == mOw \/ At(mR, p) # Nil

\* the paths of the scalar key foo, which is not in the allow-list
FooPaths == {<<"foo">>, <<"sub", "foo">>}

\* C9 (as claimed): a scalar key outside the allow-list that default holds
\* keeps default's value through a merge with directAssign = false, even when
\* changed supplies a different value.
C9_DefaultKept ==
    MergedOnce /\ ~mDa =>
        \A p \in FooPaths :
            At(mD, p) # Nil /\ MapsAlong(mC, p) => At(mOut, p) = At(mD, p)

\* C9 (amended): for a scalar key outside the allow-list that default holds,
\* a merge with directAssign = false never applies the comparator: the output
\* holds changed's value when changed supplies one that survives the rule
\* pruning (overwrite = true, or the key's path is in the rule tree), and
\* default's value otherwise.
C9_PlainOverwrite ==
    MergedOnce /\ ~mDa =>
        \A p \in FooPaths :
            At(mD, p) # Nil /\ MapsAlong(mC, p) =>
                At(mOut, p) = IF At(mC, p) # Nil /\ SurvivesPruning(p)
                              THEN At(mC, p) ELSE At(mD, p)

\* C9 witness: default and changed disagree on foo, changed's larger value
\* was pruned and default's smaller one is the result; and (second conjunct
\* of the amended claim) nothing in between.
C9_Witness ==
    /\ MergedOnce /\ ~mDa /\ ~mOw
    /\ At(mD, <<"foo">>) = S(1) /\ At(mC, <<"foo">>) = S(2)
    /\ At(mR, <<"foo">>) = Nil
    /\ At(mOut, <<"foo">>) = S(1)

-----------------------------------------------------------------------------
(* The controller-mode resolver folded over a sequence of tenants, as the  *)
(* first loop of getExtremeizes folds it over the live tenants.            *)

MaxFolds == 3

Operands == {"opA", "opB"}
Modes == {"default", "turbo", "vpa"}
ModeMaps == UNION {[os -> Modes] : os \in SUBSET Operands}

MergeIdle ==
    /\ mD = Nil /\ mC = Nil /\ mR = Nil /\ mOw = FALSE /\ mDa = FALSE
    /\ mOut = Nil /\ mOut2 = Nil /\ mExtreme = "none" /\ mPc = "off"

InitModes ==
    /\ cmSummary = <<>>
    /\ cmFolded = <<>>
    /\ MergeIdle
    /\ ReconcileIdle

\* getExtremeizes, line 559: the next tenant's mode map is folded in
FoldModes ==
    /\ Len(cmFolded) < MaxFolds
    /\ \E mapping \in ModeMaps :
        /\ cmSummary' = mergeProfileController(cmSummary, mapping)
        /\ cmFolded' = Append(cmFolded, mapping)
    /\ UNCHANGED <<varsM, varsR>>

NextModes == FoldModes

SpecModes == InitModes /\ [][NextModes]_vars

\* the tenants folded so far that declared a mode for the operand
Declaring(o) == {i \in 1..Len(cmFolded) : o \in DOMAIN cmFolded[i]}
DeclaringIndependent(o) ==
    {i \in Declaring(o) : cmFolded[i][o] \in nonDefaultProfileController}
Least(I) == CHOOSE i \in I : \A j \in I : i <= j

\* C10: controller-mode precedence.  After folding any sequence of tenants'
\* mode maps from an empty summary, an operand's summary entry is an
\* independent mode exactly when some folded tenant declared an independent
\* mode for it, and it is then the mode of the first tenant that declared
\* one: no later fold step, whatever it declares, has changed it.  An
\* operand no tenant declared has no entry.
C10_ModePrecedence ==
    \A o \in Operands :
        /\ (o \in DOMAIN cmSummary) = (Declaring(o) # {})
        /\ o \in DOMAIN cmSummary =>
              /\ (cmSummary[o] \in nonDefaultProfileController)
                    = (DeclaringIndependent(o) # {})
              /\ DeclaringIndependent(o) # {} =>
                    cmSummary[o] = cmFolded[Least(DeclaringIndependent(o))][o]
              /\ DeclaringIndependent(o) = {} =>
                    cmSummary[o] = cmFolded[Least(Declaring(o))][o]

\* C10 witness: a tenant declared an independent mode for opA, later tenants
\* declared the default mode and another independent mode for it, and the
\* entry still is the first independent mode.
C10_Witness ==
    /\ Len(cmFolded) = 3
    /\ "opA" \in DOMAIN cmFolded[1] /\ cmFolded[1]["opA"] = "turbo"
    /\ "opA" \in DOMAIN cmFolded[2] /\ cmFolded[2]["opA"] = "default"
    /\ "opA" \in DOMAIN cmFolded[3] /\ cmFolded[3]["opA"] = "vpa"
    /\ cmSummary["opA"] = "turbo"

-----------------------------------------------------------------------------
(* The cluster and the reconcile workers *)

\* the order in which List returns the tenants
TenantOrder == <<"t1", "t2">>

\* the namespace of the OperandConfig (r.CSData.ServicesNs)
OpconNs == "services-ns"

Res(n, q) ==
    M([apiVersion |-> Str("v1"), kind |-> Str("Deployment"), name |-> Str(n),
       data |-> M([spec |-> M([resources |-> M([limits |-> M([cpu |-> S(q)])])])])])

Service(spec, resources) ==
    M([name |-> Str("opA"), spec |-> M([cr1 |-> spec]), resources |-> resources])
SpecOnly(spec) == M([name |-> Str("opA"), spec |-> M([cr1 |-> spec])])
ResOnly(resources) == M([name |-> Str("opA"), resources |-> resources])

\* the OperandConfig as provisioned: one operand, one CR kind, one resource
InitServices ==
    L(<<Service(M([cpu |-> S(500), foo |-> S(1), sub |-> M([cpu |-> S(500)])]),
                L(<<Res("r1", 500)>>))>>)

\* the rule document: for opA's cr1, cpu and sub.cpu are governed
RuleSlice ==
    L(<<M([name |-> Str("opA"),
           spec |-> M([cr1 |-> M([cpu |-> Marker,
                                  sub |-> M([cpu |-> Marker])])])])>>)

NoModes == <<>>

\* what getNewConfigs extracts from a tenant's CR: its operator configs and
\* its controller-mode map
Contribs ==
    << [configs |-> L(<<Service(M([cpu |-> S(1000)]), L(<<Res("r2", 1000)>>))>>),
        mapping |-> NoModes],
       [configs |-> L(<<ResOnly(L(<<M([kind |-> Str("Deployment"),
                                      name |-> Str("r1")])>>))>>),
        mapping |-> NoModes],
       [configs |-> L(<<Service(M([cpu |-> S(2000), foo |-> S(2),
                                   sub |-> M([cpu |-> S(2000)])]),
                                L(<<Res("r1", 2000)>>))>>),
        mapping |-> NoModes],
       [configs |-> L(<<SpecOnly(M([cpu |-> S(2000)]))>>),
        mapping |-> [opA |-> "vpa"]],
       [configs |-> L(<<ResOnly(L(<<Put(Res("r1", 2000), "kind", Str(""))>>))>>),
        mapping |-> NoModes] >>

\* the CRs each tenant may apply
Menu ==
    [t \in Tenants |->
        IF t = "t1" THEN {[st |-> "live", k |-> 1], [st |-> "live", k |-> 2],
                          [st |-> "live", k |-> 5]}
        ELSE {[st |-> "live", k |-> 3], [st |-> "live", k |-> 4],
              [st |-> "clone", k |-> 3]}]

\* one worker at a time
MaxRuns == 3
MaxChanges == 2
\* two workers at once
MaxConcRuns == 2
MaxConcChanges == 1

Concurrent == pc["p2"] # "off"
RunCap == IF Concurrent THEN MaxConcRuns ELSE MaxRuns
ChangeCap == IF Concurrent THEN MaxConcChanges ELSE MaxChanges

InitCluster ==
    /\ opcon = [rv |-> 1, services |-> InitServices]
    /\ rulesText \in {"wellformed", "malformed"}
    /\ cs = [t \in Tenants |-> NoTenant]
    /\ loc = [p \in Procs |-> NoLoc]
    /\ changes = 0
    /\ synced = {}
    /\ prev = NoPrev
    /\ runs = 0
    /\ settled = FALSE
    /\ everAuto = FALSE
    /\ MergeIdle
    /\ cmSummary = <<>>
    /\ cmFolded = <<>>

\* one reconcile worker
Init ==
    /\ InitCluster
    /\ pc = [p \in Procs |-> IF p = "p1" THEN "idle" ELSE "off"]

\* two reconcile workers
InitConcurrent ==
    /\ InitCluster
    /\ pc = [p \in Procs |-> "idle"]

\* the tenants List returns (no clone label) without a deletionTimestamp
Live(c) == {t \in Tenants : c[t].st = "live"}

\* a controller-mode map puts opA under an independent controller
Autoscaled(mapping) ==
    ServiceController(mapping, "opA") \in nonDefaultProfileController

\* ---- the tenants (the environment)

\* a tenant's CR is created or updated, as a tenant of its own or as a clone
TenantApply(t) ==
    /\ changes < ChangeCap
    /\ cs[t].st # "deleting"
    /\ \E cr \in Menu[t] \ {cs[t]} :
          /\ cs' = [cs EXCEPT ![t] = cr]
          /\ everAuto' = (everAuto \/ Autoscaled(Contribs[cr.k].mapping))
    /\ changes' = changes + 1
    /\ synced' = synced \ {t}
    /\ settled' = FALSE
    /\ UNCHANGED <<varsM, varsCM, opcon, rulesText, pc, loc, prev, runs>>

\* a tenant's CR is deleted: its deletionTimestamp is set
TenantDelete(t) ==
    /\ cs[t].st \in {"live", "clone"}
    /\ cs' = [cs EXCEPT ![t].st = "deleting"]
    /\ synced' = synced \ {t}
    /\ settled' = (Live(cs) \subseteq synced)
    /\ UNCHANGED <<varsM, varsCM, opcon, rulesText, pc, loc, changes, prev, runs, everAuto>>

\* ... and the CR is gone
TenantRemoved(t) ==
    /\ cs[t].st = "deleting"
    /\ cs' = [cs EXCEPT ![t] = NoTenant]
    /\ UNCHANGED <<varsM, varsCM, opcon, rulesText, pc, loc, changes, synced, prev, runs, settled, everAuto>>

\* ---- the reconcile workers

\* The workers are interchangeable: the second one starts only while the
\* first is at work.
MayStart(p) ==
    /\ pc[p] = "idle"
    /\ p = "p2" => pc["p1"] \notin {"idle", "done"}
    /\ runs < RunCap

\* updateOperandConfig, line 378: Get succeeds.  The caller passes the
\* configs and mode map it extracted from the reconciled tenant's CR.
UpdateGet(p, t) ==
    /\ MayStart(p)
    /\ cs[t].st \in {"live", "clone"}
    /\ pc' = [pc EXCEPT ![p] = "got"]
    /\ loc' = [loc EXCEPT ![p] =
                  [NoLoc EXCEPT !.kind = "update", !.tenant = t, !.k = cs[t].k,
                                !.rv = opcon.rv, !.services = opcon.services,
                                !.steps = {"get"}]]
    /\ runs' = runs + 1
    /\ UNCHANGED <<varsM, varsCM, opcon, rulesText, cs, changes, synced, prev, settled, everAuto>>

\* handleDelete, line 645: Get succeeds
DeleteGet(p) ==
    /\ MayStart(p)
    /\ pc' = [pc EXCEPT ![p] = "got"]
    /\ loc' = [loc EXCEPT ![p] =
                  [NoLoc EXCEPT !.kind = "delete",
                                !.rv = opcon.rv, !.services = opcon.services,
                                !.steps = {"get"}]]
    /\ runs' = runs + 1
    /\ UNCHANGED <<varsM, varsCM, opcon, rulesText, cs, changes, synced, prev, settled, everAuto>>

\* lines 378-381 and 645-648: Get fails, the error is returned
GetFails(p) ==
    /\ MayStart(p)
    /\ \E kind \in {"update", "delete"} :
          loc' = [loc EXCEPT ![p] = [NoLoc EXCEPT !.kind = kind, !.err = "get"]]
    /\ pc' = [pc EXCEPT ![p] = "done"]
    /\ runs' = runs + 1
    /\ UNCHANGED <<varsM, varsCM, opcon, rulesText, cs, changes, synced, prev, settled, everAuto>>

\* a bug the claims must detect: the parse error is dropped and the
\* handler goes on to Update
ParseFails_Ignored(p) ==
    /\ pc[p] = "got"
    /\ rulesText = "malformed"
    /\ pc' = [pc EXCEPT ![p] = "computed"]
    /\ loc' = [loc EXCEPT ![p].out = loc[p].services]
    /\ UNCHANGED <<varsM, varsCM, opcon, rulesText, cs, changes, synced, prev, runs, settled, everAuto>>

\* lines 388-391 and 653-656: convertStringToSlice fails
ParseFails(p) ==
    /\ pc[p] = "got"
    /\ rulesText = "malformed"
    /\ pc' = [pc EXCEPT ![p] = "done"]
    /\ loc' = [loc EXCEPT ![p].err = "parse"]
    /\ UNCHANGED <<varsM, varsCM, opcon, rulesText, cs, changes, synced, prev, runs, settled, everAuto>>

\* the tenants List returns (no clone label) without a deletionTimestamp, in
\* List's order
RECURSIVE LiveInOrder(_, _)
LiveInOrder(c, i) ==
    IF i > Len(TenantOrder) THEN <<>>
    ELSE (IF TenantOrder[i] \in Live(c) THEN <<TenantOrder[i]>> ELSE <<>>)
             \o LiveInOrder(c, i + 1)

\* the orders in which "range tmpConfigsSlice" (a Go map) may visit them
FoldOrders(c) ==
    {o \in [1..Cardinality(Live(c)) -> Live(c)] :
        \A i, j \in DOMAIN o : o[i] = o[j] => i = j}

\* getExtremeizes, lines 548-561: the mode maps folded in List's order
ModeSummary(c) ==
    LET order == LiveInOrder(c, 1)
        f[i \in 0..Len(order)] ==
            IF i = 0 THEN <<>>
            ELSE mergeProfileController(f[i - 1], Contribs[c[order[i]].k].mapping)
    IN f[Len(order)]

\* getExtremeizes, lines 562-564: the tenants' configs folded, the first i
\* of some order
RECURSIVE ConfigSummary(_, _, _, _)
ConfigSummary(c, order, modeSummary, i) ==
    IF i = 0 THEN EmptyList
    ELSE mergeCSCRs(ConfigSummary(c, order, modeSummary, i - 1),
                    Contribs[c[order[i]].k].configs, RuleSlice, modeSummary,
                    OpconNs)

ExtremeWith(opconServices, c, order, modeSummary, extreme) ==
    ExtremeAll(opconServices, ConfigSummary(c, order, modeSummary, Len(order)),
               RuleSlice, modeSummary, OpconNs, extreme)

\* getExtremeizes once List and getNewConfigs have succeeded
getExtremeizes(opconServices, c, order, extreme) ==
    ExtremeWith(opconServices, c, order, ModeSummary(c), extreme)

\* rules.ResourceEqualComparison (package rules): equality of two trees
ResourceEqualComparison(a, b) == a = b

\* updateOperandConfig, lines 486-502
IsEqualToExisting(existing, services) ==
    \A i \in 1..Len(services.el) :
        LET opService == services.el[i]
            existingOpService == getItemByName(existing.el, Get(opService, "name").s)
            spec == Get(opService, "spec")
        IN spec # Nil =>
              \A cr \in DOMAIN spec.kv :
                  ResourceEqualComparison(
                      Get(Get(existingOpService, "spec"), cr), spec.kv[cr])

\* updateOperandConfig, lines 393-484, on the services Get returned
UpdateMerged(services, k, c, order) ==
    getExtremeizes(DirectApply(services, Contribs[k].configs,
                               Contribs[k].mapping, RuleSlice, OpconNs),
                   c, order, "max")

\* a bug the claims must detect: handleDelete asks for the maximum
DeleteMerged_Max(services, c, order) == getExtremeizes(services, c, order, "max")

\* handleDelete, line 657
DeleteMerged(services, c, order) == getExtremeizes(services, c, order, "min")

Merged(p, c, order) ==
    IF loc[p].kind = "update"
    THEN UpdateMerged(loc[p].services, loc[p].k, c, order)
    ELSE DeleteMerged(loc[p].services, c, order)

\* lines 388-502 (653-660 of handleDelete): the rules parse, the tenants are
\* listed and folded, the canonical services merged and compared
ComputeDone(p, out) ==
    /\ out # Panic
    /\ loc' = [loc EXCEPT ![p].out = out,
                          ![p].isEqual = IsEqualToExisting(loc[p].services, out),
                          ![p].seen = cs,
                          ![p].steps = @ \cup {"parse", "list", "extract"},
                          ![p].allSynced = (settled /\ Live(cs) \subseteq synced)]

Compute(p) ==
    /\ pc[p] = "got"
    /\ rulesText = "wellformed"
    /\ \E order \in FoldOrders(cs) : ComputeDone(p, Merged(p, cs, order))
    /\ pc' = [pc EXCEPT ![p] = "computed"]
    /\ UNCHANGED <<varsM, varsCM, opcon, rulesText, cs, changes, synced, prev, runs, settled, everAuto>>

\* a type assertion or an index fails on the way: the reconcile is aborted
ComputePanics(p) ==
    /\ pc[p] = "got"
    /\ rulesText = "wellformed"
    /\ \E order \in FoldOrders(cs) : Merged(p, cs, order) = Panic
    /\ pc' = [pc EXCEPT ![p] = "done"]
    /\ loc' = [loc EXCEPT ![p].err = "panic", ![p].seen = cs,
                          ![p].steps = @ \cup {"parse"}]
    /\ UNCHANGED <<varsM, varsCM, opcon, rulesText, cs, changes, synced, prev, runs, settled, everAuto>>

\* getExtremeizes, lines 537-545: List (or the conversion of its result) fails
ListFails(p) ==
    /\ pc[p] = "got"
    /\ rulesText = "wellformed"
    /\ loc[p].kind = "update" =>
          DirectApply(loc[p].services, Contribs[loc[p].k].configs,
                      Contribs[loc[p].k].mapping, RuleSlice, OpconNs) # Panic
    /\ pc' = [pc EXCEPT ![p] = "done"]
    /\ loc' = [loc EXCEPT ![p].err = "list", ![p].steps = @ \cup {"parse"}]
    /\ UNCHANGED <<varsM, varsCM, opcon, rulesText, cs, changes, synced, prev, runs, settled, everAuto>>

\* getExtremeizes, lines 554-557: getNewConfigs fails on a live tenant
ExtractFails(p) ==
    /\ pc[p] = "got"
    /\ rulesText = "wellformed"
    /\ Live(cs) # {}
    /\ loc[p].kind = "update" =>
          DirectApply(loc[p].services, Contribs[loc[p].k].configs,
                      Contribs[loc[p].k].mapping, RuleSlice, OpconNs) # Panic
    /\ pc' = [pc EXCEPT ![p] = "done"]
    /\ loc' = [loc EXCEPT ![p].err = "extract", ![p].steps = @ \cup {"parse", "list"}]
    /\ UNCHANGED <<varsM, varsCM, opcon, rulesText, cs, changes, synced, prev, runs, settled, everAuto>>

\* what the API server stores of the object sent: its JSON encoding, in
\* which struct{}{} is the empty object
RECURSIVE Serialize(_)
Serialize(x) ==
    IF x = EmptyStruct THEN EmptyMap
    ELSE IF IsMap(x) THEN M([k \in DOMAIN x.kv |-> Serialize(x.kv[k])])
    ELSE IF IsList(x) THEN L([i \in 1..Len(x.el) |-> Serialize(x.el[i])])
    ELSE x

\* a bug the claims must detect: the handler sends the version the object
\* has by now
SentVersion_Refreshed(p) == opcon.rv

\* the resourceVersion the Update call carries: that of the object Get
\* returned, which the handler modifies and sends back

SentVersion(p) == loc[p].rv

\* Update of the persistence adapter: accepted when the stored object still
\* has the version sent
Accepts(rv) == rv = opcon.rv

\* lines 504-511 and 662-669: Update succeeds
UpdateOK(p) ==
    /\ pc[p] = "computed"
    /\ Accepts(SentVersion(p))
    /\ opcon' = [rv |-> opcon.rv + 1, services |-> Serialize(loc[p].out)]
    /\ pc' = [pc EXCEPT ![p] = "done"]
    /\ loc' = [q \in Procs |->
                 IF q = p
                 THEN [loc[p] EXCEPT
                          !.updCalls = @ + 1, !.wrote = TRUE,
                          !.again = /\ loc[p].kind = "update"
                                    /\ prev = [rv |-> loc[p].rv, k |-> loc[p].k,
                                               seen |-> loc[p].seen]]
                 ELSE IF pc[q] \in {"got", "computed"}
                      THEN [loc[q] EXCEPT !.overtaken = TRUE]
                      ELSE loc[q]]
    /\ prev' = IF loc[p].kind = "update"
               THEN [rv |-> opcon.rv + 1, k |-> loc[p].k, seen |-> loc[p].seen]
               ELSE NoPrev
    /\ synced' = IF /\ loc[p].kind = "update"
                    /\ cs[loc[p].tenant] = [st |-> "live", k |-> loc[p].k]
                    /\ loc[p].seen[loc[p].tenant] = cs[loc[p].tenant]
                 THEN synced \cup {loc[p].tenant}
                 ELSE synced
    /\ UNCHANGED <<varsM, varsCM, rulesText, cs, changes, runs, settled, everAuto>>

\* Update answers Conflict: the object changed since it was read
UpdateConflict(p) ==
    /\ pc[p] = "computed"
    /\ ~Accepts(SentVersion(p))
    /\ pc' = [pc EXCEPT ![p] = "done"]
    /\ loc' = [loc EXCEPT ![p].updCalls = @ + 1, ![p].err = "conflict"]
    /\ UNCHANGED <<varsM, varsCM, opcon, rulesText, cs, changes, synced, prev, runs, settled, everAuto>>

\* Update fails for another reason, nothing is stored
UpdateError(p) ==
    /\ pc[p] = "computed"
    /\ Accepts(SentVersion(p))
    /\ pc' = [pc EXCEPT ![p] = "done"]
    /\ loc' = [loc EXCEPT ![p].updCalls = @ + 1, ![p].err = "update"]
    /\ UNCHANGED <<varsM, varsCM, opcon, rulesText, cs, changes, synced, prev, runs, settled, everAuto>>

\* the handler has returned; the worker takes the next event
Finish(p) ==
    /\ pc[p] = "done"
    /\ pc' = [pc EXCEPT ![p] = "idle"]
    /\ loc' = [loc EXCEPT ![p] = NoLoc]
    /\ UNCHANGED <<varsM, varsCM, opcon, rulesText, cs, changes, synced, prev, runs, settled, everAuto>>

Next ==
    \/ \E t \in Tenants : TenantApply(t)
    \/ \E t \in Tenants : TenantDelete(t)
    \/ \E t \in Tenants : TenantRemoved(t)
    \/ \E p \in Procs, t \in Tenants : UpdateGet(p, t)
    \/ \E p \in Procs : DeleteGet(p)
    \/ \E p \in Procs : GetFails(p)
    \/ \E p \in Procs : ParseFails(p)
    \/ \E p \in Procs : Compute(p)
    \/ \E p \in Procs : ComputePanics(p)
    \/ \E p \in Procs : ListFails(p)
    \/ \E p \in Procs : ExtractFails(p)
    \/ \E p \in Procs : UpdateOK(p)
    \/ \E p \in Procs : UpdateConflict(p)
    \/ \E p \in Procs : UpdateError(p)
    \/ \E p \in Procs : Finish(p)

\* one worker: no Update of another execution can come in between
NextSerial ==
    \/ \E t \in Tenants : TenantApply(t)
    \/ \E t \in Tenants : TenantDelete(t)
    \/ \E t \in Tenants : TenantRemoved(t)
    \/ \E p \in Procs, t \in Tenants : UpdateGet(p, t)
    \/ \E p \in Procs : DeleteGet(p)
    \/ \E p \in Procs : GetFails(p)
    \/ \E p \in Procs : ParseFails(p)
    \/ \E p \in Procs : Compute(p)
    \/ \E p \in Procs : ComputePanics(p)
    \/ \E p \in Procs : ListFails(p)
    \/ \E p \in Procs : ExtractFails(p)
    \/ \E p \in Procs : UpdateOK(p)
    \/ \E p \in Procs : UpdateError(p)
    \/ \E p \in Procs : Finish(p)

Spec == Init /\ [][NextSerial]_vars

SpecConcurrent == InitConcurrent /\ [][Next]_vars

-----------------------------------------------------------------------------
(* Properties of the reconcile handlers *)

\* opA's cr1 in a services list
CanonSpec(services) == At(services.el[1], <<"spec", "cr1">>)

\* what a tenant's CR asks for at a path of opA's cr1
Request(k, path) == At(Contribs[k].configs.el[1], <<"spec", "cr1">> \o path)

\* the allow-list numeric fields the rule document governs, and fields it
\* does not name
GovernedPaths == {<<"cpu">>, <<"sub", "cpu">>}
UngovernedPaths == {<<"foo">>, <<"sub", "foo">>}

\* opA is under the default controller mode for the tenants c
DefaultMode(c) == ~Autoscaled(ModeSummary(c))

Succeeded(p) == pc[p] = "done" /\ loc[p].err = "" /\ loc[p].wrote

\* the live tenants' requests at a path, as numbers
Requests(c, path) ==
    {Request(c[t].k, path).n : t \in {u \in Live(c) : IsNum(Request(c[u].k, path))}}

Largest(ns) == CHOOSE n \in ns : \A m \in ns : m <= n

HoldsLargest(p) ==
    \A path \in GovernedPaths :
        Requests(loc[p].seen, path) # {} =>
            At(CanonSpec(loc[p].out), path) = S(Largest(Requests(loc[p].seen, path)))

C3_ReconcileIdempotent ==
    \A p \in Procs :
        Succeeded(p) /\ loc[p].again =>
            /\ Serialize(loc[p].out) = loc[p].services
            /\ loc[p].isEqual

\* C4: an execution whose read another execution's Update has overtaken
\* gets Conflict from its own single Update call and stores nothing
C4_NoLostUpdate ==
    \A p \in Procs :
        loc[p].overtaken =>
            /\ ~loc[p].wrote
            /\ loc[p].updCalls <= 1
            /\ loc[p].updCalls = 1 => pc[p] = "done" /\ loc[p].err = "conflict"

C4_Witness ==
    \E p, q \in Procs :
        /\ p # q
        /\ loc[p].overtaken /\ pc[p] = "done" /\ loc[p].err = "conflict"
        /\ Succeeded(q) /\ loc[q].rv = loc[p].rv
        /\ opcon.services = Serialize(loc[q].out)

\* C5: an execution calls Update at most once, only after Get, the parse of
\* the rules, List and the extraction have succeeded; an execution that
\* returns an error has stored nothing
C5_AllOrNothing ==
    \A p \in Procs :
        /\ loc[p].updCalls <= 1
        /\ loc[p].updCalls = 1 => loc[p].steps = {"get", "parse", "list", "extract"}
        /\ loc[p].wrote => loc[p].updCalls = 1
        /\ pc[p] = "done" /\ loc[p].err # "" => ~loc[p].wrote

C5_Witness ==
    \E p \in Procs :
        /\ pc[p] = "done" /\ loc[p].err = "extract"
        /\ loc[p].steps = {"get", "parse", "list"}
        /\ loc[p].updCalls = 0
        /\ opcon = [rv |-> loc[p].rv, services |-> loc[p].services]

\* C8 as stated: a successful updateOperandConfig leaves every field at a
\* path the rule document does not name as it was
C8_UngovernedUnchanged ==
    \A p \in Procs :
        Succeeded(p) /\ loc[p].kind = "update" =>
            \A path \in UngovernedPaths :
                At(CanonSpec(loc[p].out), path) = At(CanonSpec(loc[p].services), path)

\* C8, of the aggregation: after a successful updateOperandConfig a field at
\* a path the rule document does not name holds the reconciled CR's own
\* value when that CR supplies one, and otherwise what it held before, whatever
\* the other tenants ask for
C8_UngovernedOnlyByReconciled ==
    \A p \in Procs :
        Succeeded(p) /\ loc[p].kind = "update" =>
            \A path \in UngovernedPaths :
                At(CanonSpec(loc[p].out), path) =
                    IF Request(loc[p].k, path) # Nil
                    THEN Request(loc[p].k, path)
                    ELSE At(CanonSpec(loc[p].services), path)

C8_Witness ==
    \E p \in Procs :
        /\ Succeeded(p) /\ loc[p].kind = "update"
        /\ loc[p].tenant = "t1" /\ loc[p].k = 1
        /\ loc[p].seen["t2"] = [st |-> "live", k |-> 3]
        /\ Request(3, <<"foo">>) = S(2)
        /\ At(CanonSpec(loc[p].out), <<"foo">>) = S(1)
        /\ At(CanonSpec(loc[p].out), <<"cpu">>) = S(2000)

\* an execution was cut short by a failed type assertion
Aborted(p) == pc[p] = "done" /\ loc[p].err = "panic"

\* C11: fault isolation.  A tenant contribution of the wrong shape (here a
\* resource entry without the apiVersion key) never aborts updateOperandConfig
\* or handleDelete: no execution ends in a panic, the field or resource is
\* skipped and the rest is persisted
C11_FaultIsolation == \A p \in Procs : ~Aborted(p)

\* the resource overrides of a tenant CR
Overrides(k) ==
    LET rs == Get(Contribs[k].configs.el[1], "resources")
    IN IF IsList(rs) THEN {rs.el[i] : i \in 1..Len(rs.el)} ELSE {}

\* the tenant CRs with an override whose apiVersion, kind or name is empty:
\* the key is missing, or it holds the empty string
IncompleteCRs == {k \in DOMAIN Contribs : \E r \in Overrides(k) : IdentityIncomplete(r)}
EmptyStringCRs ==
    {k \in IncompleteCRs :
        \A r \in Overrides(k) : \A f \in {"apiVersion", "kind", "name"} : IsStr(Get(r, f))}

\* the tenant CRs an execution worked on: the reconciled one and those of
\* the tenants live at List
WorkedOn(p) ==
    (IF loc[p].kind = "update" THEN {loc[p].k} ELSE {})
        \cup {loc[p].seen[t].k : t \in Live(loc[p].seen)}

\* the execution reached the merge and no cluster call failed
Ran(p) == pc[p] = "done" /\ loc[p].err \in {"", "panic"}

\* some override the execution worked on names the canonical resource fully
CompleteOverride(p) ==
    \E k \in WorkedOn(p) : \E r \in Overrides(k) :
        ~IdentityIncomplete(r) /\ Get(r, "name") = Str("r1")

CanonResources(services) == Get(services.el[1], "resources")

\* C12: incomplete resource identity.  An execution that works on a tenant
\* CR with a resource override whose apiVersion, kind or name is empty
\* completes without error, and the canonical entry is left as it was unless
\* another override names it fully
C12_IncompleteIdentitySkipped ==
    \A p \in Procs :
        Ran(p) /\ WorkedOn(p) \cap IncompleteCRs # {} =>
            /\ loc[p].err = ""
            /\ ~CompleteOverride(p) =>
                  CanonResources(loc[p].out) = CanonResources(loc[p].services)

\* the same for overrides whose empty field holds the empty string
EmptyStringIdentitySkipped ==
    \A p \in Procs :
        /\ Ran(p) /\ WorkedOn(p) \cap EmptyStringCRs # {}
        /\ WorkedOn(p) \cap (IncompleteCRs \ EmptyStringCRs) = {}
        => /\ loc[p].err = ""
           /\ ~CompleteOverride(p) =>
                 CanonResources(loc[p].out) = CanonResources(loc[p].services)

-----------------------------------------------------------------------------
(* The two merges with list padding applied to a pair of lists at the same *)
(* path: mergeCRsIntoOperandConfig and mergeSizeProfile                    *)

MaxPadLen == 3

PadLists == SeqsUpTo(MaxPadLen, ListElems)

InitPad ==
    /\ \E d \in PadLists, c \in PadLists :
          mD = M([lst |-> L(d)]) /\ mC = M([lst |-> L(c)])
    /\ mR \in {EmptyMap, M([lst |-> Marker])}
    /\ mOw \in BOOLEAN
    /\ mDa \in BOOLEAN
    /\ mExtreme = "none"
    /\ mOut = Nil
    /\ mOut2 = Nil
    /\ mPc = "lists"
    /\ cmSummary = <<>>
    /\ cmFolded = <<>>
    /\ ReconcileIdle

\* RuleFilteredMerge of the two lists
PadRuleFiltered ==
    /\ mPc = "lists"
    /\ mOut' = mergeCRsIntoOperandConfig(mD, mC, mR, mOw, mDa)
    /\ mPc' = "filtered"
    /\ UNCHANGED <<mD, mC, mR, mOw, mDa, mExtreme, mOut2>>

\* UnconditionalDeepMerge of the same two lists
PadDeep ==
    /\ mPc = "filtered"
    /\ mOut2' = mergeSizeProfile(mD, mC)
    /\ mPc' = "deep"
    /\ UNCHANGED <<mD, mC, mR, mOw, mDa, mExtreme, mOut>>

NextPad == (PadRuleFiltered \/ PadDeep) /\ UNCHANGED <<varsCM, varsR>>

SpecPad == InitPad /\ [][NextPad]_vars

\* a merge result whose list at lst has default's length and default's
\* elements at the positions changed's list does not reach
Padded(out) ==
    LET d == mD.kv["lst"].el
        c == mC.kv["lst"].el
        r == Get(out, "lst")
    IN /\ IsList(r)
       /\ Len(r.el) = Len(d)
       /\ \A i \in (Len(c) + 1)..Len(d) : r.el[i] = d[i]

\* changed's list is shorter than default's and reaches the merge
ShortList(pruned) ==
    /\ Len(mC.kv["lst"].el) < Len(mD.kv["lst"].el)
    /\ ~pruned

PrunedByRules == ~mOw /\ Get(mR, "lst") = Nil

\* C13: short-list padding.  When a default list of length n meets a changed
\* list of length m < n, the result of either merge has length n and holds
\* default's elements at the positions m..n-1, whatever the elements are
C13_ShortListPadded ==
    /\ mPc \in {"filtered", "deep"} /\ mOut # Panic /\ ShortList(PrunedByRules)
           => Padded(mOut)
    /\ mPc = "deep" /\ mOut2 # Panic /\ ShortList(FALSE) => Padded(mOut2)

\* the padding when every element of default that changed's list does not
\* reach is a map
PaddedWithMaps ==
    (\A i \in (Len(mC.kv["lst"].el) + 1)..Len(mD.kv["lst"].el) :
         IsMap(mD.kv["lst"].el[i])) => C13_ShortListPadded

-----------------------------------------------------------------------------
(* Further properties of the reconcile handlers *)

\* C14: change detection.  A successful updateOperandConfig returns
\* unchanged = true exactly when the services it persists equal, over the
\* spec and the resources of every operand, the snapshot taken after Get
C14_ChangeDetection ==
    \A p \in Procs :
        Succeeded(p) /\ loc[p].kind = "update" =>
            (loc[p].isEqual <=> Serialize(loc[p].out) = loc[p].services)

\* change detection over the spec of every operand only
SpecChangeDetection ==
    \A p \in Procs :
        Succeeded(p) /\ loc[p].kind = "update" =>
            (loc[p].isEqual <=>
                \A i \in 1..Len(loc[p].out.el) :
                    Get(Serialize(loc[p].out).el[i], "spec")
                        = Get(loc[p].services.el[i], "spec"))

\* C15: autoscaler-owned fields.  When the controller mode resolved for opA
\* over the tenants live at List is an independent one, the spec a
\* successful updateOperandConfig or handleDelete persists holds nothing at
\* the governed replicas/cpu/memory paths, even when the reconciled CR
\* supplies a value there
C15_AutoscalerOwned ==
    \A p \in Procs :
        Succeeded(p) /\ Autoscaled(ModeSummary(loc[p].seen)) =>
            \A path \in GovernedPaths :
                At(CanonSpec(Serialize(loc[p].out)), path) = Nil

C15_Witness ==
    \E p \in Procs :
        /\ Succeeded(p) /\ loc[p].kind = "update"
        /\ Autoscaled(ModeSummary(loc[p].seen))
        /\ loc[p].tenant = "t2" /\ loc[p].k = 4
        /\ Request(4, <<"cpu">>) = S(2000)
        /\ loc[p].seen["t1"] = [st |-> "live", k |-> 1]
        /\ At(CanonSpec(loc[p].services), <<"cpu">>) # Nil
        /\ At(CanonSpec(loc[p].services), <<"sub", "cpu">>) # Nil
        /\ At(CanonSpec(opcon.services), <<"cpu">>) = Nil
        /\ At(CanonSpec(opcon.services), <<"sub", "cpu">>) = Nil
        /\ At(CanonSpec(opcon.services), <<"foo">>) # Nil

\* the same after handleDelete
AutoscalerOwnedAfterDelete ==
    \E p \in Procs :
        /\ Succeeded(p) /\ loc[p].kind = "delete"
        /\ Autoscaled(ModeSummary(loc[p].seen))
        /\ At(CanonSpec(loc[p].services), <<"cpu">>) # Nil
        /\ At(CanonSpec(opcon.services), <<"cpu">>) = Nil

\* the allow-list numeric fields of opA in a services list (or a summary):
\* the governed fields of its spec and the cpu limit of each resource, by
\* resource name
LimitsCpu(entry, n) ==
    LET rs == Get(entry, "resources")
        named == IF IsList(rs)
                 THEN {i \in 1..Len(rs.el) : Get(rs.el[i], "name") = Str(n)}
                 ELSE {}
    IN {At(rs.el[i], <<"data", "spec", "resources", "limits", "cpu">>) : i \in named}

SpecNumbers(entry) ==
    [path \in GovernedPaths |-> At(entry, <<"spec", "cr1">> \o path)]

ResourceNumbers(entry) == [n \in {"r1", "r2"} |-> LimitsCpu(entry, n)]

\* opA's entry in the summary of the tenants c folded in an order
SummaryOf(c, order) ==
    getItemByName(ConfigSummary(c, order, ModeSummary(c), Len(order)).el, "opA")

\* the fold orders under which no type assertion fails
SoundOrders(p) ==
    {o \in FoldOrders(loc[p].seen) : Merged(p, loc[p].seen, o) # Panic}

\* C16: fold-order independence.  Whatever the order in which the live
\* tenants are folded, the summary and the services to be written hold the
\* same allow-list numeric values, in opA's spec and in its resources
C16_FoldOrderIndependent ==
    \A p \in Procs :
        pc[p] = "computed" =>
            \A o1, o2 \in SoundOrders(p) :
                /\ SpecNumbers(SummaryOf(loc[p].seen, o1))
                      = SpecNumbers(SummaryOf(loc[p].seen, o2))
                /\ ResourceNumbers(SummaryOf(loc[p].seen, o1))
                      = ResourceNumbers(SummaryOf(loc[p].seen, o2))
                /\ SpecNumbers(Merged(p, loc[p].seen, o1).el[1])
                      = SpecNumbers(Merged(p, loc[p].seen, o2).el[1])
                /\ ResourceNumbers(Merged(p, loc[p].seen, o1).el[1])
                      = ResourceNumbers(Merged(p, loc[p].seen, o2).el[1])

\* fold-order independence of the spec alone
SpecFoldOrderIndependent ==
    \A p \in Procs :
        pc[p] = "computed" =>
            \A o1, o2 \in SoundOrders(p) :
                /\ SpecNumbers(SummaryOf(loc[p].seen, o1))
                      = SpecNumbers(SummaryOf(loc[p].seen, o2))
                /\ SpecNumbers(Merged(p, loc[p].seen, o1).el[1])
                      = SpecNumbers(Merged(p, loc[p].seen, o2).el[1])

-----------------------------------------------------------------------------
(* ExtremeMerge (shrinkSize) applied to drawn inputs *)

ExLeaf == M([cpu |-> S(1)])
ExValues == Qty \cup {ExLeaf, L(<<ExLeaf>>)}
ExFlat == MapsOver({"cpu", "sub"}, ExValues)
ExTrees == ExFlat \cup {M([top |-> m]) : m \in ExFlat}

InitExtreme ==
    /\ mD \in ExTrees
    /\ mC \in ExTrees
    /\ mExtreme \in {"max", "min"}
    /\ mR = Nil /\ mOw = FALSE /\ mDa = FALSE
    /\ mOut = Nil
    /\ mOut2 = Nil
    /\ mPc = "extreme"
    /\ cmSummary = <<>>
    /\ cmFolded = <<>>
    /\ ReconcileIdle

ApplyExtreme ==
    /\ mPc = "extreme"
    /\ mOut' = shrinkSize(mD, mC, mExtreme)
    /\ mPc' = "shrunk"
    /\ UNCHANGED <<mD, mC, mR, mOw, mDa, mExtreme, mOut2>>

NextExtreme == ApplyExtreme /\ UNCHANGED <<varsCM, varsR>>

SpecExtreme == InitExtreme /\ [][NextExtreme]_vars

ExKeys == {"cpu", "sub", "top"}
ExPaths ==
    {<<k>> : k \in ExKeys} \cup {<<j, k>> : j \in ExKeys, k \in ExKeys}
        \cup {<<i, j, k>> : i \in ExKeys, j \in ExKeys, k \in ExKeys}

Shrunk == mPc = "shrunk" /\ mOut # Panic

\* C17: ExtremeMerge adoption.  For Max and for Min, every field changed
\* holds and default does not, at the top level or below, a scalar, a map or
\* a list, is in the result with changed's value
C17_Adopted ==
    Shrunk =>
        \A p \in ExPaths :
            At(mC, p) # Nil /\ At(mD, p) = Nil /\ MapsAlong(mD, p) =>
                At(mOut, p) = At(mC, p)

\* the adoption of scalars below the top level: in a map both trees hold
ScalarAdoptedBelowTop ==
    Shrunk =>
        \A p \in ExPaths :
            /\ Len(p) > 1
            /\ IsNum(At(mC, p)) /\ At(mD, p) = Nil
            /\ IsMap(At(mD, SubSeq(p, 1, Len(p) - 1)))
            => At(mOut, p) = At(mC, p)

=============================================================================
